---- MODULE Spec2Model ----
(***************************************************************************)
(* Flight Booking API (src/main.py, src/schemas.py).                       *)
(*                                                                         *)
(* The model covers the "flight" and "booking" collections of the document *)
(* store and the create_booking handler (POST /api/bookings), split at its *)
(* store operations: find_one (line 179), create_document (line 203) and   *)
(* update_one with $inc (line 206).  Several requests run concurrently;    *)
(* each store operation is atomic, the handler as a whole is not.          *)
(*                                                                         *)
(* A passengers list is modelled by its length, a price by an integer      *)
(* (the seeded prices are whole numbers stored as floats).                 *)
(* create_document (module database) inserts the document into the named   *)
(* collection and returns its id.                                          *)
(*                                                                         *)
(* The environment of the handler is part of the model: the process may    *)
(* die between two store operations of a request (Crash), and another      *)
(* client of the store may raise a flight's price (SetPrice).  One flight  *)
(* document is followed per behaviour; requests on different flights touch  *)
(* different documents.                                                    *)
(***************************************************************************)
EXTENDS Integers, FiniteSets, Sequences, TLC

(* ---------------------------- bounds ----------------------------------- *)

\* number of concurrent create_booking requests in one behaviour
NumRequests == 2

\* days seeded by the model: range(0, MaxSeedDay + 1), a prefix of range(0, 5)
MaxSeedDay == 1

(* ------------------------ program constants ---------------------------- *)

\* seats_total of every seeded flight
SeatsTotal == 120

\* seats already taken per day offset: seats_available = 120 - d * 3
SeatsTakenPerDay == 3

\* price_base[("IKA", "MHD")]
PriceBase == 70

\* price = price_base + d * 5
PriceStepPerDay == 5

(* ------------------------------ inputs --------------------------------- *)

\* the requests that run concurrently
Requests == 1..NumRequests

\* request 0 is an earlier request that ran alone and has returned
EarlierRequest == 0

AllRequests == {EarlierRequest} \cup Requests

SeedDays == 0..MaxSeedDay

\* the id of the seeded IKA-MHD flight document of day offset d
FlightId(d) == <<"flight", d>>

FlightIds == {FlightId(d) : d \in SeedDays}

\* a well-formed ObjectId string that names no document
UnknownId == <<"flight", MaxSeedDay + 1>>

\* a string ObjectId() refuses
MalformedId == <<"not-an-object-id">>

\* flight_id values of a BookingRequest: the id of a stored flight, a
\* well-formed id of no document, a malformed id
RequestFlightIds(stored) == stored \cup {UnknownId, MalformedId}

\* len(req.passengers); List[PassengerIn] has no minimum length
PassengerCounts == {0, 2, 3}

\* seats left by the earlier request, when there was one
SeatsLeft == {2, 5}

\* prices another client of the store may write
PriceValues == {PriceBase, PriceBase + PriceStepPerDay}

NoDoc == [none |-> TRUE]

NoRequest == [none |-> TRUE]

VARIABLES
    flights,        \* db["flight"]: flight id -> document
    bookings,       \* db["booking"]: set of booking documents
    pc,             \* position of each request in create_booking
    req,            \* the BookingRequest of each request
    flight,         \* the local variable flight (result of find_one)
    decremented,    \* history: requests whose update_one has been applied
    priceAtDec      \* history: the flight's price when update_one was applied

vars == <<flights, bookings, pc, req, flight, decremented, priceAtDec>>

(* ------------------------------ helpers -------------------------------- *)

\* ObjectId(req.flight_id) succeeds
IsObjectId(id) == id # MalformedId

\* the Flight document ensure_seed builds for day offset d on route IKA-MHD
SeedFlight(d) ==
    [price           |-> PriceBase + d * PriceStepPerDay,
     seats_total     |-> SeatsTotal,
     seats_available |-> SeatsTotal - d * SeatsTakenPerDay]

\* db["flight"].find_one({"_id": fid})
FindOne(fid) == IF fid \in DOMAIN flights THEN flights[fid] ELSE NoDoc

\* the Booking document built at lines 186-202
BookingDoc(r) ==
    [id           |-> r,
     flight_id    |-> req[r].flight_id,
     passengers   |-> req[r].passengers,
     total_amount |-> flight[r].price * req[r].passengers,
     status       |-> "confirmed"]

Terminal == {"ok", "invalid_id", "not_found", "no_seats", "crashed"}

Returned == {"ok", "invalid_id", "not_found", "no_seats"}

(* ------------------------------- Init ---------------------------------- *)

\* the store after ensure_seed on an empty database, observed on one seeded
\* flight document
Seeded(d) ==
    /\ flights = (FlightId(d) :> SeedFlight(d))
    /\ bookings = {}
    /\ pc = [r \in AllRequests |-> "idle"]
    /\ req = [r \in AllRequests |-> NoRequest]
    /\ flight = [r \in AllRequests |-> NoDoc]
    /\ decremented = {}
    /\ priceAtDec = [r \in AllRequests |-> 0]

\* the seeded store after one create_booking for n passengers has run alone
\* on the flight of day d and returned 200
SeededThenBooked(d, n) ==
    LET doc == SeedFlight(d)
        fid == FlightId(d)
        r0  == EarlierRequest
    IN  /\ flights = (fid :> [doc EXCEPT !.seats_available = @ - n])
        /\ bookings = {[id           |-> r0,
                        flight_id    |-> fid,
                        passengers   |-> n,
                        total_amount |-> doc.price * n,
                        status       |-> "confirmed"]}
        /\ pc = [r \in AllRequests |-> IF r = r0 THEN "ok" ELSE "idle"]
        /\ req = [r \in AllRequests |->
                    IF r = r0 THEN [flight_id |-> fid, passengers |-> n]
                    ELSE NoRequest]
        /\ flight = [r \in AllRequests |-> IF r = r0 THEN doc ELSE NoDoc]
        /\ decremented = {r0}
        /\ priceAtDec = [r \in AllRequests |-> IF r = r0 THEN doc.price ELSE 0]

Init ==
    \E d \in SeedDays :
        \/ Seeded(d)
        \/ \E k \in SeatsLeft :
             SeededThenBooked(d, SeedFlight(d).seats_available - k)

(* ------------------------------ actions -------------------------------- *)

\* a request arrives and its flight_id is parsed (lines 173-178)
Receive(r, fid, n) ==
    /\ pc[r] = "idle"
    /\ \A q \in Requests : q < r => pc[q] # "idle"   \* requests are interchangeable
    /\ req' = [req EXCEPT ![r] = [flight_id |-> fid, passengers |-> n]]
    /\ pc' = [pc EXCEPT ![r] = IF IsObjectId(fid) THEN "find" ELSE "invalid_id"]
    /\ UNCHANGED <<flights, bookings, flight, decremented, priceAtDec>>

\* FindFlight with the capacity check off by one (seats_available + 1 < n)
FindFlightOffByOne(r) ==
    /\ pc[r] = "find"
    /\ LET doc == FindOne(req[r].flight_id) IN
         IF doc = NoDoc
         THEN /\ pc' = [pc EXCEPT ![r] = "not_found"]
              /\ UNCHANGED flight
         ELSE IF doc.seats_available + 1 < req[r].passengers
         THEN /\ pc' = [pc EXCEPT ![r] = "no_seats"]
              /\ flight' = [flight EXCEPT ![r] = doc]
         ELSE /\ pc' = [pc EXCEPT ![r] = "insert"]
              /\ flight' = [flight EXCEPT ![r] = doc]
    /\ UNCHANGED <<flights, bookings, req, decremented, priceAtDec>>

\* FindFlight answering a missing flight like a full one (400 instead of 404)
FindFlightNo404(r) ==
    /\ pc[r] = "find"
    /\ LET doc == FindOne(req[r].flight_id) IN
         IF doc = NoDoc
         THEN /\ pc' = [pc EXCEPT ![r] = "no_seats"]
              /\ UNCHANGED flight
         ELSE IF doc.seats_available < req[r].passengers
         THEN /\ pc' = [pc EXCEPT ![r] = "no_seats"]
              /\ flight' = [flight EXCEPT ![r] = doc]
         ELSE /\ pc' = [pc EXCEPT ![r] = "insert"]
              /\ flight' = [flight EXCEPT ![r] = doc]
    /\ UNCHANGED <<flights, bookings, req, decremented, priceAtDec>>

\* find_one and the two checks on its result (lines 179-183)
FindFlight(r) ==
    /\ pc[r] = "find"
    /\ LET doc == FindOne(req[r].flight_id) IN
         IF doc = NoDoc
         THEN /\ pc' = [pc EXCEPT ![r] = "not_found"]
              /\ UNCHANGED flight
         ELSE IF doc.seats_available < req[r].passengers
         THEN /\ pc' = [pc EXCEPT ![r] = "no_seats"]
              /\ flight' = [flight EXCEPT ![r] = doc]
         ELSE /\ pc' = [pc EXCEPT ![r] = "insert"]
              /\ flight' = [flight EXCEPT ![r] = doc]
    /\ UNCHANGED <<flights, bookings, req, decremented, priceAtDec>>

\* InsertBooking pricing the booking from the stored flight, not from the
\* document find_one returned
InsertBookingLivePrice(r) ==
    /\ pc[r] = "insert"
    /\ bookings' = bookings \cup
         {[BookingDoc(r) EXCEPT
             !.total_amount = flights[req[r].flight_id].price * req[r].passengers]}
    /\ pc' = [pc EXCEPT ![r] = "update"]
    /\ UNCHANGED <<flights, req, flight, decremented, priceAtDec>>

\* build the booking and create_document("booking", booking) (lines 186-203)
InsertBooking(r) ==
    /\ pc[r] = "insert"
    /\ bookings' = bookings \cup {BookingDoc(r)}
    /\ pc' = [pc EXCEPT ![r] = "update"]
    /\ UNCHANGED <<flights, req, flight, decremented, priceAtDec>>

\* update_one({"_id": fid}, {"$inc": {"seats_available": -n}}) and the
\* response (lines 206-208)
DecreaseSeats(r) ==
    /\ pc[r] = "update"
    /\ LET fid == req[r].flight_id IN
         /\ flights' = [flights EXCEPT
                ![fid].seats_available = @ - req[r].passengers]
         /\ priceAtDec' = [priceAtDec EXCEPT ![r] = flights[fid].price]
    /\ decremented' = decremented \cup {r}
    /\ pc' = [pc EXCEPT ![r] = "ok"]
    /\ UNCHANGED <<bookings, req, flight>>

\* the process dies between two store operations of the request
Crash(r) ==
    /\ pc[r] \in {"insert", "update"}
    /\ pc' = [pc EXCEPT ![r] = "crashed"]
    /\ UNCHANGED <<flights, bookings, req, flight, decremented, priceAtDec>>

\* another client of the store raises a flight's price
SetPrice(f, p) ==
    /\ f \in DOMAIN flights
    /\ p > flights[f].price
    /\ flights' = [flights EXCEPT ![f].price = p]
    /\ UNCHANGED <<bookings, pc, req, flight, decremented, priceAtDec>>

Next ==
    \/ \E r \in Requests, fid \in RequestFlightIds(DOMAIN flights), n \in PassengerCounts :
         Receive(r, fid, n)
    \/ \E r \in Requests : FindFlight(r)
    \/ \E r \in Requests : InsertBooking(r)
    \/ \E r \in Requests : DecreaseSeats(r)
    \/ \E r \in Requests : Crash(r)
    \/ \E f \in FlightIds, p \in PriceValues : SetPrice(f, p)

Spec == Init /\ [][Next]_vars

(* ------------------------- derived quantities -------------------------- *)

\* the booking documents a request has inserted
BookingsOf(r) == {b \in bookings : b.id = r}

\* the confirmed bookings that reference flight f
ConfirmedOn(f) == {b \in bookings : b.flight_id = f /\ b.status = "confirmed"}

RECURSIVE SumPassengers(_)
\* the number of passengers over a set of booking documents
SumPassengers(S) ==
    IF S = {} THEN 0
    ELSE LET b == CHOOSE x \in S : TRUE
         IN  b.passengers + SumPassengers(S \ {b})

\* the concurrent requests against flight f that returned 200
Succeeded(f) == {r \in Requests : pc[r] = "ok" /\ req[r].flight_id = f}

RECURSIVE SumRequested(_)
\* the number of passengers over a set of requests
SumRequested(R) ==
    IF R = {} THEN 0
    ELSE LET r == CHOOSE x \in R : TRUE
         IN  req[r].passengers + SumRequested(R \ {r})

\* seats_available of flight f when the concurrent requests start (K)
SeatsAtStart(f) ==
    SeedFlight(f[2]).seats_available
      - (IF pc[EarlierRequest] = "ok" THEN req[EarlierRequest].passengers ELSE 0)

\* every concurrent request that was made has ended
AllSettled == \A r \in Requests : pc[r] \in Terminal \cup {"idle"}

(* ------------------------------ claims --------------------------------- *)

\* C1: in every reachable state, under any interleaving of concurrent
\* create_booking requests, every flight has
\* 0 <= seats_available <= seats_total.
C1_SeatsWithinRange ==
    \A f \in DOMAIN flights :
        /\ 0 <= flights[f].seats_available
        /\ flights[f].seats_available <= flights[f].seats_total

\* C2: once all concurrent calls against a flight that started with K seats
\* have finished, the passengers of the calls that succeeded number at most
\* K, and seats_available is K minus that number and is not below 0.
C2_SettledSeats ==
    AllSettled =>
        \A f \in DOMAIN flights :
            LET sold == SumRequested(Succeeded(f)) IN
                /\ sold <= SeatsAtStart(f)
                /\ flights[f].seats_available = SeatsAtStart(f) - sold
                /\ flights[f].seats_available >= 0

\* C3: seat conservation: in every reachable state, the seeded one and the
\* ones between the two writes of a create_booking included, seats_available
\* plus the passengers of all confirmed bookings of a flight is seats_total.
C3_SeatConservation ==
    \A f \in DOMAIN flights :
        flights[f].seats_available + SumPassengers(ConfirmedOn(f))
            = flights[f].seats_total

\* C4: when two requests for 2 passengers each both meet a flight with
\* seats_available = 2 and no other request runs, exactly one of them
\* succeeds (seats_available becomes 0, one booking with 2 passengers) and
\* the other fails with "Not enough seats available" and creates nothing.
C4_ExactlyOneOfTwo ==
    \A r1 \in Requests, r2 \in Requests :
        ( /\ r1 < r2
          /\ pc[r1] \in Returned /\ pc[r2] \in Returned
          /\ \A r3 \in Requests \ {r1, r2} : pc[r3] = "idle"
          /\ req[r1].flight_id \in DOMAIN flights
          /\ req[r2].flight_id = req[r1].flight_id
          /\ req[r1].passengers = 2 /\ req[r2].passengers = 2
          /\ flight[r1] # NoDoc /\ flight[r1].seats_available = 2
          /\ flight[r2] # NoDoc /\ flight[r2].seats_available = 2 )
        => /\ {pc[r1], pc[r2]} = {"ok", "no_seats"}
           /\ flights[req[r1].flight_id].seats_available = 0
           /\ Cardinality(BookingsOf(r1) \cup BookingsOf(r2)) = 1
           /\ \A b \in BookingsOf(r1) \cup BookingsOf(r2) :
                 /\ b.passengers = 2
                 /\ pc[b.id] = "ok"

\* C5: every request that has ended, by a response or by a crash between its
\* store operations, has done the seat decrement and the booking insert, or
\* neither of them.
C5_BothOrNeither ==
    \A r \in AllRequests :
        pc[r] \in Terminal => (BookingsOf(r) # {} <=> r \in decremented)

\* C6 (state part): a request refused for lack of seats saw fewer seats than
\* it asked for, and has inserted no booking and decremented nothing.
C6_RejectedDidNothing ==
    \A r \in Requests :
        pc[r] = "no_seats" =>
            /\ flight[r] # NoDoc
            /\ flight[r].seats_available < req[r].passengers
            /\ BookingsOf(r) = {}
            /\ r \notin decremented

\* C6 (step part): the step that reads a flight with fewer seats than asked
\* for ends the request with "no_seats" and changes no flight and no booking.
C6_RejectStep ==
    \A r \in Requests :
        ( /\ pc[r] = "find" /\ pc'[r] # "find"
          /\ FindOne(req[r].flight_id) # NoDoc
          /\ FindOne(req[r].flight_id).seats_available < req[r].passengers )
        => /\ pc'[r] = "no_seats"
           /\ flights' = flights
           /\ bookings' = bookings
           /\ decremented' = decremented

\* C6: a create_booking whose passenger count is greater than the flight's
\* seats_available fails with the 400 "Not enough seats available", leaves
\* seats_available unchanged and inserts no booking.
C6_InsufficientSeatsRejected ==
    /\ []C6_RejectedDidNothing
    /\ [][C6_RejectStep]_vars

\* C6 witness: a request for 3 passengers was refused on a flight with 2 seats
C6_Witness ==
    \E r \in Requests :
        /\ pc[r] = "no_seats"
        /\ req[r].passengers = 3
        /\ flight[r].seats_available = 2
        /\ flights[req[r].flight_id].seats_available = 2

\* C7 (state part): a request answered 404 named no stored flight, and has
\* inserted no booking and decremented nothing.
C7_NotFoundDidNothing ==
    \A r \in Requests :
        pc[r] = "not_found" =>
            /\ req[r].flight_id \notin DOMAIN flights
            /\ flight[r] = NoDoc
            /\ BookingsOf(r) = {}
            /\ r \notin decremented

\* C7 (step part): the step that finds no flight for the request's id ends
\* the request with "not_found" and changes no flight and no booking.
C7_NotFoundStep ==
    \A r \in Requests :
        ( /\ pc[r] = "find" /\ pc'[r] # "find"
          /\ req[r].flight_id \notin DOMAIN flights )
        => /\ pc'[r] = "not_found"
           /\ flights' = flights
           /\ bookings' = bookings
           /\ decremented' = decremented

\* C7: a create_booking whose flight_id resolves to no flight fails with
\* 404 and changes no flight and no booking.
C7_UnknownFlightNotFound ==
    /\ []C7_NotFoundDidNothing
    /\ [][C7_NotFoundStep]_vars

\* C7 witness: a request for passengers on an unknown flight was answered 404
\* while another request booked
C7_Witness ==
    \E r \in Requests :
        /\ pc[r] = "not_found"
        /\ req[r].flight_id = UnknownId
        /\ req[r].passengers > 0
        /\ \E q \in Requests : pc[q] = "ok"

C8_TotalFromReadPrice ==
    \A b \in bookings :
        /\ flight[b.id] # NoDoc
        /\ b.passengers = req[b.id].passengers
        /\ b.total_amount = flight[b.id].price * b.passengers
        /\ (b.passengers = 3 /\ flight[b.id].price = PriceBase)
              => b.total_amount = 210

\* C8 amended (step part): no step changes a stored booking, a price write
\* included, and the decrement takes exactly the booking's passengers off
\* seats_available.
C8_BookingKept ==
    /\ \A b \in bookings : b \in bookings'
    /\ \A r \in Requests :
         (r \notin decremented /\ r \in decremented') =>
            flights'[req[r].flight_id].seats_available
                = flights[req[r].flight_id].seats_available - req[r].passengers

C9_NoEmptyBooking ==
    /\ \A r \in Requests :
         (req[r] # NoRequest /\ req[r].passengers = 0) =>
            pc[r] \notin {"insert", "update", "ok"}
    /\ \A b \in bookings : b.passengers >= 1

\* C10: the seat decrement comes before the booking insert and gates it: a
\* booking is inserted only by a request whose decrement has been applied,
\* and a decrement is applied only when seats_available >= N.
C10_DecrementFirst ==
    \A b \in bookings : b.id \in decremented

\* C10 (step part): the decrement is conditional on seats_available >= N
C10_ConditionalDecrement ==
    \A r \in Requests :
        (r \notin decremented /\ r \in decremented') =>
            flights[req[r].flight_id].seats_available >= req[r].passengers

\* C10: within every create_booking the conditional seat decrement comes
\* first and the booking insert is attempted only after it has succeeded.
C10_DecrementGatesInsert ==
    /\ []C10_DecrementFirst
    /\ [][C10_ConditionalDecrement]_vars

====
